---- MODULE Spec2Model ----
(***************************************************************************)
(* ChainTrace IoT module: the ingestion path (SensorDataCollector), the    *)
(* reading buffer and batch processor (DataProcessor), the sensor          *)
(* simulator's timers (SensorSimulator) and the module that wires them     *)
(* together (ChainTraceIoTModule); further the stateless functions of the  *)
(* pipeline and SensorDataValidator (EvalSpec), the collector's sensor     *)
(* registry (CollectorSpec) and the EnvironmentalSimulator (EnvSpec).      *)
(*                                                                         *)
(* Node.js runs every callback to completion; the only suspension point of *)
(* a flush is the `await Promise.all(...)` in DataProcessor.processQueue,  *)
(* so a flush is two steps: the synchronous part that runs inside the      *)
(* caller (addToQueue or the interval callback) and the continuation.      *)
(***************************************************************************)
EXTENDS Integers, Sequences, FiniteSets, TLC

\* ------------------------------------------------------------------ bounds
\* DataProcessor.batchSize is 100 in the source; the model scales it down.
BatchSize == 2
\* Number of MQTT messages delivered in one behaviour.
MaxReadings == 4
\* Number of ChainTraceIoTModule.start() calls in one behaviour.
MaxStarts == 1

\* ------------------------------------------------------- program constants
\* Staleness limit of calculateQualityScore, in minutes (300000 ms).
StaleAfter == 5
\* QUALITY_LOW floor of DataProcessor.checkForAlerts.
QualityFloor == 70
\* Evaluation time of the model (minutes since the epoch); the clock is
\* frozen in Spec.
Now == 50000

Min(a, b) == IF a <= b THEN a ELSE b
Max(a, b) == IF a >= b THEN a ELSE b

\* ------------------------------------------------------------ JS values
\* A JSON value of the payload: a number, undefined (key absent), or an
\* object with the keys latitude and longitude.
NumV(n) == [kind |-> "number", n |-> n]
UndefV == [kind |-> "undefined", n |-> 0]
ObjV(lat, lon) == [kind |-> "object", latitude |-> lat, longitude |-> lon]

\* JavaScript truthiness of a payload value (`!x` is its negation).
Truthy(v) ==
  CASE v.kind = "number" -> v.n # 0
    [] v.kind = "object" -> TRUE
    [] OTHER -> FALSE

\* typeof v === 'number'
IsNumber(v) == v.kind = "number"

\* MQTT messages the broker may deliver: topic sensors/<id>/<type> and the
\* JSON payload (timestamp 0 and metadata 0 stand for an absent key;
\* metadata n > 0 is an object with n keys).
SampleMessages ==
  { [sensorId |-> "S1", sensorType |-> "temperature", value |-> NumV(20),
     timestamp |-> 0, metadata |-> 1],
    [sensorId |-> "S2", sensorType |-> "humidity", value |-> NumV(200),
     timestamp |-> 0, metadata |-> 1],
    [sensorId |-> "S1", sensorType |-> "temperature", value |-> NumV(0),
     timestamp |-> Now - 6, metadata |-> 0] }

\* The SensorReading built by handleMQTTMessage; seq is the admission number
\* the model attaches to tell readings apart.
BuildReading(m, n) ==
  [seq |-> n,
   sensorId |-> m.sensorId,
   sensorType |-> m.sensorType,
   value |-> m.value,
   timestamp |-> IF m.timestamp # 0 THEN m.timestamp ELSE Now,
   metadata |-> m.metadata]

\* ---------------------------------------------------- SensorDataCollector
\* validateSensorReading: the four required fields must be truthy, then the
\* type-specific range check.
validateSensorReading(r) ==
  /\ r.sensorId # ""
  /\ r.sensorType # ""
  /\ Truthy(r.value)
  /\ r.timestamp # 0
  /\ CASE r.sensorType = "temperature" ->
            IsNumber(r.value) /\ r.value.n >= -50 /\ r.value.n <= 150
       [] r.sensorType = "humidity" ->
            IsNumber(r.value) /\ r.value.n >= 0 /\ r.value.n <= 100
       [] r.sensorType = "pressure" ->
            IsNumber(r.value) /\ r.value.n >= 0 /\ r.value.n <= 2000
       [] r.sensorType \in {"light", "vibration"} ->
            IsNumber(r.value) /\ r.value.n >= 0
       [] r.sensorType = "location" ->
            /\ r.value.kind = "object"
            /\ IsNumber(r.value.latitude)
            /\ IsNumber(r.value.longitude)
       [] OTHER -> TRUE

\* ----------------------------------------------------------- DataProcessor
\* validateReading: TRUE when it returns, FALSE when it throws.
validateReading(r) ==
  /\ r.sensorId # ""
  /\ r.sensorType # ""
  /\ r.value.kind # "undefined"
  /\ r.timestamp # 0
  /\ CASE r.sensorType = "temperature" ->
            ~(~IsNumber(r.value) \/ r.value.n < -50 \/ r.value.n > 150)
       [] r.sensorType = "humidity" ->
            ~(~IsNumber(r.value) \/ r.value.n < 0 \/ r.value.n > 100)
       [] r.sensorType = "pressure" ->
            ~(~IsNumber(r.value) \/ r.value.n < 0 \/ r.value.n > 2000)
       [] r.sensorType = "location" ->
            ~(\/ r.value.kind # "object"
              \/ ~IsNumber(r.value.latitude)
              \/ ~IsNumber(r.value.longitude))
       [] OTHER -> TRUE

\* isValueReasonable is a stub that returns true.
isValueReasonable(r) == TRUE

\* calculateQualityScore, evaluated when Date.now() is t.
calculateQualityScoreAt(r, t) ==
  LET s1 == IF t - r.timestamp > StaleAfter THEN 100 - 20 ELSE 100
      s2 == IF isValueReasonable(r) THEN s1 - 10 ELSE s1
      s3 == IF r.metadata = 0 THEN s2 - 5 ELSE s2
  IN  Max(0, s3)

\* calculateQualityScore, evaluated at time Now.
calculateQualityScore(r) == calculateQualityScoreAt(r, Now)

normalizeValue_NoOffset(r) ==
  CASE r.sensorType = "temperature" -> [num |-> r.value.n, den |-> 200]
    [] r.sensorType = "humidity" -> [num |-> r.value.n, den |-> 100]
    [] r.sensorType = "pressure" -> [num |-> r.value.n, den |-> 2000]
    [] OTHER -> [num |-> IF IsNumber(r.value) THEN r.value.n ELSE 0, den |-> 1]

\* normalizeValue, as the exact fraction num/den.
normalizeValue(r) ==
  CASE r.sensorType = "temperature" -> [num |-> r.value.n + 50, den |-> 200]
    [] r.sensorType = "humidity" -> [num |-> r.value.n, den |-> 100]
    [] r.sensorType = "pressure" -> [num |-> r.value.n, den |-> 2000]
    [] OTHER -> [num |-> IF IsNumber(r.value) THEN r.value.n ELSE 0, den |-> 1]

\* applyTransformations (the fields the model follows).
applyTransformations(r) ==
  [originalValue |-> r.value,
   normalizedValue |-> normalizeValue(r),
   timestamp |-> r.timestamp]

processSensorReadingAt_HourBehind(r, t) ==
  IF validateReading(r)
  THEN [ok |-> TRUE,
        data |-> [seq |-> r.seq, sensorId |-> r.sensorId,
                  sensorType |-> r.sensorType, value |-> r.value,
                  timestamp |-> r.timestamp, metadata |-> r.metadata,
                  transformedData |-> applyTransformations(r),
                  qualityScore |-> calculateQualityScoreAt(r, t),
                  processedAt |-> t - 60]]
  ELSE [ok |-> FALSE, data |-> r]

\* processSensorReading run when the clock reads t: ok = FALSE when the
\* promise rejects (validateReading threw and the catch block rethrew);
\* otherwise data is the ProcessedData.
processSensorReadingAt(r, t) ==
  IF validateReading(r)
  THEN [ok |-> TRUE,
        data |-> [seq |-> r.seq, sensorId |-> r.sensorId,
                  sensorType |-> r.sensorType, value |-> r.value,
                  timestamp |-> r.timestamp, metadata |-> r.metadata,
                  transformedData |-> applyTransformations(r),
                  qualityScore |-> calculateQualityScoreAt(r, t),
                  processedAt |-> t]]
  ELSE [ok |-> FALSE, data |-> r]

\* processSensorReading at time Now.
processSensorReading(r) == processSensorReadingAt(r, Now)

\* isAnomaly is a stub that returns false.
isAnomaly(d) == FALSE

QualityAlert_AtFloor(d) ==
  IF d.qualityScore <= QualityFloor
  THEN <<[type |-> "QUALITY_LOW", severity |-> "medium", seq |-> d.seq]>>
  ELSE <<>>

\* The quality check of checkForAlerts for one item.
QualityAlert(d) ==
  IF d.qualityScore < QualityFloor
  THEN <<[type |-> "QUALITY_LOW", severity |-> "medium", seq |-> d.seq]>>
  ELSE <<>>

\* checkForAlerts over a processed batch: the flat list of alerts.
RECURSIVE checkForAlerts(_)
checkForAlerts(processed) ==
  IF processed = <<>> THEN <<>>
  ELSE LET d == Head(processed)
           q == QualityAlert(d)
           a == IF isAnomaly(d)
                THEN <<[type |-> "ANOMALY_DETECTED", severity |-> "high",
                        seq |-> d.seq]>>
                ELSE <<>>
       IN  q \o a \o checkForAlerts(Tail(processed))

\* ------------------------------------------------------ SensorDataValidator
\* The validator's readings carry the sensorId as a sequence of characters,
\* the timestamp as minutes (0: absent or empty, -1: a string Date.parse
\* rejects) and the metadata as a record of what JSON.stringify meets.
\* Every operator returns the message of the ValidationError it throws, or
\* "ok" when it returns.

\* validateSensorId's length limit.
MaxIdLength == 50
\* validateTimestamp's limits, in minutes (3600000 ms and 2592000000 ms).
FutureLimit == 60
PastLimit == 43200
\* validateMetadata's size limit.
MetadataLimit == 1048576

\* Characters of the sample ids that /^[a-zA-Z0-9_-]+$/ admits.
IdChars == {"S", "a", "1", "_", "-"}

validateSensorId(sensorId) ==
  IF Len(sensorId) = 0 THEN "Sensor ID is required"
  ELSE IF Len(sensorId) > MaxIdLength THEN "Sensor ID is too long"
  ELSE IF \E i \in DOMAIN sensorId : sensorId[i] \notin IdChars
       THEN "Sensor ID contains invalid characters"
  ELSE "ok"

validateTimestamp(timestamp, now) ==
  IF timestamp = 0 THEN "Timestamp is required"
  ELSE IF timestamp = -1 THEN "Invalid timestamp format"
  ELSE IF timestamp - now > FutureLimit
       THEN "Timestamp cannot be more than 1 hour in the future"
  ELSE IF timestamp - now < -PastLimit
       THEN "Timestamp cannot be more than 30 days in the past"
  ELSE "ok"

validateMetadata(metadata) ==
  IF metadata.kind # "object" THEN "Metadata must be an object"
  ELSE IF metadata.circular THEN "Metadata contains circular references"
  ELSE IF metadata.size > MetadataLimit THEN "Metadata is too large"
  ELSE "ok"

\* The required-field checks of SensorDataValidator.validateSensorReading.
requiredFields(r) ==
  IF Len(r.sensorId) = 0 THEN "Sensor ID is required"
  ELSE IF r.sensorType = "" THEN "Sensor type is required"
  ELSE IF r.value.kind = "undefined" THEN "Sensor value is required"
  ELSE IF r.timestamp = 0 THEN "Timestamp is required"
  ELSE "ok"

\* The switch over the sensor type of validateSensorReading.
typeSpecific(r) ==
  CASE r.sensorType = "temperature" ->
         IF ~IsNumber(r.value) \/ r.value.n < -50 \/ r.value.n > 150
         THEN "Invalid temperature value" ELSE "ok"
    [] r.sensorType = "humidity" ->
         IF ~IsNumber(r.value) \/ r.value.n < 0 \/ r.value.n > 100
         THEN "Invalid humidity value" ELSE "ok"
    [] r.sensorType = "pressure" ->
         IF ~IsNumber(r.value) \/ r.value.n < 0 \/ r.value.n > 2000
         THEN "Invalid pressure value" ELSE "ok"
    [] r.sensorType = "light" ->
         IF ~IsNumber(r.value) \/ r.value.n < 0
         THEN "Invalid light value" ELSE "ok"
    [] r.sensorType = "vibration" ->
         IF ~IsNumber(r.value) \/ r.value.n < 0
         THEN "Invalid vibration value" ELSE "ok"
    [] r.sensorType = "location" ->
         IF \/ r.value.kind # "object"
            \/ ~IsNumber(r.value.latitude)
            \/ ~IsNumber(r.value.longitude)
         THEN "Invalid location value"
         ELSE IF r.value.latitude.n < -90 \/ r.value.latitude.n > 90
         THEN "Invalid latitude"
         ELSE IF r.value.longitude.n < -180 \/ r.value.longitude.n > 180
         THEN "Invalid longitude"
         ELSE "ok"
    [] OTHER -> "Unknown sensor type"

\* SensorDataValidator.validateSensorReading: required fields, then the
\* timestamp's format, then the type's check.
SensorDataValidator_validateSensorReading(r) ==
  IF requiredFields(r) # "ok" THEN requiredFields(r)
  ELSE IF r.timestamp = -1 THEN "Invalid timestamp format"
  ELSE typeSpecific(r)

\* ------------------------------------------------------------ event wiring
Range(s) == { s[i] : i \in DOMAIN s }

\* Listeners registered on the SensorDataCollector emitter, in registration
\* order: its own constructor first, then ChainTraceIoTModule's.
CollectorListeners(event) ==
  CASE event = "sensorData" -> <<"collector.processSensorData", "module.addToQueue">>
    [] event = "sensorAlert" -> <<"collector.handleSensorAlert", "module.handleSensorAlert">>
    [] event = "sensorOffline" -> <<"collector.handleSensorOffline">>
    [] OTHER -> <<>>

\* Listeners registered on the DataProcessor emitter.
ProcessorListeners(event) ==
  CASE event = "dataProcessed" -> <<"processor.handleProcessedData">>
    [] event = "alertGenerated" -> <<"processor.handleAlert", "module.handleDataAlerts">>
    [] event = "processedData" -> <<"module.handleProcessedData">>
    [] OTHER -> <<>>

\* The log of a handler after an emit: the payload is appended when the
\* handler is among the listeners of the emitted event.
Deliver(listeners, handler, log, payload) ==
  IF handler \in Range(listeners) THEN Append(log, payload) ELSE log

\* Simulated sensor types, one setInterval each per startSimulation.
SimTypes == {"temperature", "humidity", "pressure", "location"}

VARIABLES
  processingQueue,   \* DataProcessor.processingQueue
  isProcessing,      \* DataProcessor.isProcessing
  batch,             \* the batch of the flush suspended at its await
  intervalId,        \* DataProcessor.intervalId (0 is null)
  timers,            \* DataProcessor intervals the runtime still fires
  starts,            \* number of ChainTraceIoTModule.start() calls so far
  modRunning,        \* ChainTraceIoTModule.isRunning
  stopped,           \* stop() was the last lifecycle call
  mqttClient,        \* SensorDataCollector.mqttClient is non-null
  openClients,       \* MQTT clients of the collector that are not ended
  simRunning,        \* SensorSimulator.isRunning
  simIntervalId,     \* SensorSimulator.intervalId (0 is null)
  simIntervals,      \* per type, simulator intervals the runtime still fires
  admitted,          \* number of readings passed to addToQueue so far
  flushes,           \* history: the batches removed, with their trigger
  outcomes,          \* history: "ok" or "failed" per finished flush
  processorHandled,  \* batches seen by DataProcessor.handleProcessedData
  moduleHandled,     \* batches seen by ChainTraceIoTModule.handleProcessedData
  moduleAlerts,      \* alert lists seen by ChainTraceIoTModule.handleDataAlerts
  unhandled,         \* rejections that escaped processQueue
  lastOp             \* "tick" after a DataProcessor interval callback,
                     \* "simPublish" after a simulator publish, else "other"

VARIABLES
  probe,             \* the last call of a stateless function: name, input, result
  sensors,           \* SensorDataCollector.sensors, the registry
  clock,             \* the wall clock in minutes, modulo ClockWrap
  collected,         \* what the last handleMQTTMessage call emitted
  env,               \* the EnvironmentalSimulator: config, state, isRunning
  pv,                \* the ProofVerifier contract
  ac,                \* the ChainTraceAccessControl contract
  tr,                \* the TraceRegistry contract
  an,                \* the AnalyticsService
  ns,                \* the NotificationService
  sim                \* a SensorSimulator driven directly

\* Sensors of the registry.
SensorIds == {"S1", "S2"}

\* Minutes of silence after which a sensor counts as gone; the registry
\* entry's lastSeen is kept as the silence so far, saturating one minute
\* beyond the window.
SilenceWindow == 1

\* Period of the modelled wall clock.
ClockWrap == 2

\* Registry entry of an id that sensors.get() does not find.
NoSensor == [registered |-> FALSE, thresholds |-> {}, status |-> "none",
             silence |-> 0]

\* Variables of the components that ChainTraceIoTModule does not drive.
otherVars == <<probe, sensors, clock, collected, env, pv, ac, tr, an, ns, sim>>

\* Their value while nothing has been called.
OtherIdle ==
  /\ probe = [op |-> "none"]
  /\ sensors = [s \in SensorIds |-> NoSensor]
  /\ clock = 0
  /\ collected = [op |-> "none"]
  /\ env = [last |-> "none"]
  /\ pv = [last |-> [op |-> "constructor", ok |-> TRUE], proofs |-> <<>>,
           now |-> 0, circuit |-> FALSE, verifier |-> FALSE]
  /\ ac = [org |-> [a \in {"admin", "org"} |-> "unregistered"],
           roles |-> [a \in {"admin", "org"} |->
                        IF a = "admin" THEN {"DEFAULT_ADMIN_ROLE", "ADMIN_ROLE"}
                        ELSE {}],
           permissions |-> [a \in {"admin", "org"} |->
                              [granted |-> {}, expiresAt |-> 0]]]
  /\ tr = [last |-> [op |-> "constructor", ok |-> TRUE], paused |-> FALSE,
           manufacturer |-> FALSE, verifier |-> FALSE,
           products |-> 0, batches |-> <<>>, traceRecords |-> <<>>]
  /\ an = [metricsBuffer |-> <<>>, isProcessing |-> FALSE, flushTimer |-> TRUE,
           metricsToFlush |-> <<>>, recorded |-> 0, processed |-> {},
           emitted |-> "none", cleanup |-> "none", before |-> 0]
  /\ ns = [messageQueue |-> <<>>, isProcessing |-> FALSE, loops |-> 0,
           sending |-> <<>>, queued |-> 0, attempts |-> <<>>]
  /\ sim = [isRunning |-> FALSE, intervalId |-> 0,
            intervals |-> [t \in SimTypes |-> 0],
            fired |-> [t \in SimTypes |-> 0],
            published |-> [t \in SimTypes |-> 0],
            last |-> "constructor"]

vars == <<processingQueue, isProcessing, batch, intervalId, timers, starts,
          modRunning, stopped, mqttClient, openClients, simRunning,
          simIntervalId, simIntervals, admitted, flushes, outcomes,
          processorHandled, moduleHandled, moduleAlerts, unhandled, lastOp,
          otherVars>>

procVars == <<processingQueue, isProcessing, batch, flushes>>
outVars == <<outcomes, processorHandled, moduleHandled, moduleAlerts, unhandled>>
lifeVars == <<intervalId, timers, starts, modRunning, stopped, mqttClient,
              openClients, simRunning, simIntervalId, simIntervals>>

\* The variables of the iot-module.
iotVars == <<procVars, outVars, lifeVars, admitted, lastOp, probe, sensors,
             clock, collected, env, sim>>

\* The variables of ChainTraceIoTModule and of the contracts and services
\* that the iot-module's own specifications leave alone.
mainVars == <<procVars, outVars, lifeVars, admitted, lastOp, pv, ac, tr, an, ns,
              sim>>

\* Everything but the SensorSimulator driven directly.
simRest == <<procVars, outVars, lifeVars, admitted, lastOp, probe, sensors,
             clock, collected, env, pv, ac, tr, an, ns>>

\* State after `new ChainTraceIoTModule()`: the DataProcessor constructor has
\* already called startProcessing() once.
Init ==
  /\ processingQueue = <<>>
  /\ isProcessing = FALSE
  /\ batch = <<>>
  /\ intervalId = 1
  /\ timers = {1}
  /\ starts = 0
  /\ modRunning = FALSE
  /\ stopped = FALSE
  /\ mqttClient = FALSE
  /\ openClients = 0
  /\ simRunning = FALSE
  /\ simIntervalId = 0
  /\ simIntervals = [t \in SimTypes |-> 0]
  /\ admitted = 0
  /\ flushes = <<>>
  /\ outcomes = <<>>
  /\ processorHandled = <<>>
  /\ moduleHandled = <<>>
  /\ moduleAlerts = <<>>
  /\ unhandled = 0
  /\ lastOp = "other"
  /\ OtherIdle

\* Mutant of Splice: slice instead of splice, the batch stays in the queue.
Splice_Slice(q) ==
  [removed |-> SubSeq(q, 1, Min(BatchSize, Len(q))),
   rest |-> q]

\* Mutant of Splice: removes the newest readings instead of the oldest.
Splice_Newest(q) ==
  [removed |-> SubSeq(q, Len(q) - Min(BatchSize, Len(q)) + 1, Len(q)),
   rest |-> SubSeq(q, 1, Len(q) - Min(BatchSize, Len(q)))]

\* processingQueue.splice(0, batchSize): the removed items and what is left.
Splice(q) ==
  [removed |-> SubSeq(q, 1, Min(BatchSize, Len(q))),
   rest |-> SubSeq(q, Min(BatchSize, Len(q)) + 1, Len(q))]

\* Mutant of processQueueStart: the guard does not test isProcessing.
processQueueStart_NoBusyCheck(q, busy) ==
  IF Len(q) = 0
  THEN [started |-> FALSE, queue |-> q, batch |-> <<>>]
  ELSE [started |-> TRUE, queue |-> Splice(q).rest, batch |-> Splice(q).removed]

\* processQueue up to its await: the guard, the flag and the splice.
processQueueStart(q, busy) ==
  IF busy \/ Len(q) = 0
  THEN [started |-> FALSE, queue |-> q, batch |-> <<>>]
  ELSE [started |-> TRUE, queue |-> Splice(q).rest, batch |-> Splice(q).removed]

\* Mutant of addToQueue: the size trigger fires only at exactly batchSize.
addToQueue_EqOnly(q, busy, r) ==
  LET q1 == Append(q, r)
  IN  IF Len(q1) = BatchSize
      THEN processQueueStart(q1, busy)
      ELSE [started |-> FALSE, queue |-> q1, batch |-> <<>>]

\* Mutant of addToQueue: the size trigger fires only above batchSize.
addToQueue_Gt(q, busy, r) ==
  LET q1 == Append(q, r)
  IN  IF Len(q1) > BatchSize
      THEN processQueueStart(q1, busy)
      ELSE [started |-> FALSE, queue |-> q1, batch |-> <<>>]

\* addToQueue: push, then the size trigger.
addToQueue(q, busy, r) ==
  LET q1 == Append(q, r)
  IN  IF Len(q1) >= BatchSize
      THEN processQueueStart(q1, busy)
      ELSE [started |-> FALSE, queue |-> q1, batch |-> <<>>]

\* The effect of the synchronous part of a flush on the DataProcessor state.
ApplyFlush(res, trigger) ==
  /\ processingQueue' = res.queue
  /\ isProcessing' = (isProcessing \/ res.started)
  /\ batch' = IF res.started THEN res.batch ELSE batch
  /\ flushes' = IF res.started
                THEN Append(flushes, [items |-> res.batch, trigger |-> trigger])
                ELSE flushes

\* SensorDataCollector.handleMQTTMessage: builds the reading and emits
\* 'sensorData'; the listeners run in registration order.  processSensorData
\* validates and, with no sensor registered, changes no state; the module's
\* listener calls DataProcessor.addToQueue with the same reading.
handleMQTTMessage(m) ==
  /\ openClients > 0
  /\ admitted < MaxReadings
  /\ LET r == BuildReading(m, admitted + 1)
     IN  IF "module.addToQueue" \in Range(CollectorListeners("sensorData"))
         THEN /\ ApplyFlush(addToQueue(processingQueue, isProcessing, r), "size")
              /\ admitted' = admitted + 1
         ELSE UNCHANGED <<procVars, admitted>>
  /\ lastOp' = "other"
  /\ UNCHANGED <<outVars, lifeVars, otherVars>>

\* Mutant of TimerTick: the callback flushes only a full batch.
TimerTick_FullOnly(t) ==
  /\ t \in timers
  /\ IF Len(processingQueue) >= BatchSize /\ ~isProcessing
     THEN ApplyFlush(processQueueStart(processingQueue, isProcessing), "timer")
     ELSE UNCHANGED procVars
  /\ lastOp' = "tick"
  /\ UNCHANGED <<outVars, lifeVars, admitted, otherVars>>

\* The setInterval callback of DataProcessor.startProcessing.
TimerTick(t) ==
  /\ t \in timers
  /\ IF Len(processingQueue) > 0 /\ ~isProcessing
     THEN ApplyFlush(processQueueStart(processingQueue, isProcessing), "timer")
     ELSE UNCHANGED procVars
  /\ lastOp' = "tick"
  /\ UNCHANGED <<outVars, lifeVars, admitted, otherVars>>

\* The outcome of Promise.all over the batch: rejected when any reading's
\* processSensorReading rejected.
AllOk(b) == \A i \in DOMAIN b : processSensorReading(b[i]).ok

\* Mutant of Settle: the flag is cleared at the end of the try block instead
\* of in a finally block.
Settle_NoFinally(ok) ==
  [emitted |-> ok, caught |-> ~ok, escaped |-> FALSE, flag |-> ~ok]

\* The try / catch / finally of processQueue, given whether Promise.all
\* resolved: the events are emitted only on success, an error is caught and
\* logged (it does not reject the promise processQueue returned), and the
\* finally block clears the flag on both paths.
Settle(ok) ==
  [emitted |-> ok, caught |-> ~ok, escaped |-> FALSE, flag |-> FALSE]

\* processQueue after its await: emit the processed batch and the alerts, or
\* catch the error; finally clear the flag.
FlushContinue ==
  /\ isProcessing
  /\ LET s == Settle(AllOk(batch))
     IN  /\ IF s.emitted
            THEN LET processedBatch ==
                       [i \in DOMAIN batch |-> processSensorReading(batch[i]).data]
                     alerts == checkForAlerts(processedBatch)
                 IN  /\ processorHandled' =
                          Deliver(ProcessorListeners("dataProcessed"),
                                  "processor.handleProcessedData",
                                  processorHandled, processedBatch)
                     /\ moduleHandled' =
                          Deliver(ProcessorListeners("dataProcessed"),
                                  "module.handleProcessedData",
                                  moduleHandled, processedBatch)
                     /\ moduleAlerts' =
                          IF Len(alerts) > 0
                          THEN Deliver(ProcessorListeners("alertGenerated"),
                                       "module.handleDataAlerts",
                                       moduleAlerts, alerts)
                          ELSE moduleAlerts
            ELSE UNCHANGED <<processorHandled, moduleHandled, moduleAlerts>>
         /\ outcomes' = Append(outcomes, IF AllOk(batch) THEN "ok" ELSE "failed")
         /\ unhandled' = IF s.escaped THEN unhandled + 1 ELSE unhandled
         /\ isProcessing' = s.flag
  /\ batch' = <<>>
  /\ lastOp' = "other"
  /\ UNCHANGED <<processingQueue, flushes, lifeVars, admitted, otherVars>>

\* SensorSimulator.startSimulation: no-op while running; otherwise one
\* setInterval per simulated type, none of which is stored in intervalId.
startSimulation(running, ivs) ==
  IF running
  THEN [running |-> running, ivs |-> ivs]
  ELSE [running |-> TRUE, ivs |-> [t \in SimTypes |-> ivs[t] + 1]]

\* SensorSimulator.stopSimulation: no-op while not running; otherwise clears
\* the flag and the interval stored in intervalId, if any.
stopSimulation(running, id, ivs) ==
  IF ~running
  THEN [running |-> running, id |-> id, ivs |-> ivs]
  ELSE [running |-> FALSE, id |-> 0,
        ivs |-> IF id # 0 THEN [t \in SimTypes |-> 0] ELSE ivs]

\* DataProcessor.startProcessing: a new interval, stored in intervalId.
startProcessing(ts, newId) == [id |-> newId, timers |-> ts \cup {newId}]

\* DataProcessor.stopProcessing: clears the interval intervalId refers to.
stopProcessing(id, ts) ==
  IF id # 0 THEN [id |-> 0, timers |-> ts \ {id}] ELSE [id |-> id, timers |-> ts]

\* ChainTraceIoTModule.start(): connect the collector, start processing and,
\* when NODE_ENV is 'development', the simulator.
Start(dev) ==
  /\ starts < MaxStarts
  /\ starts' = starts + 1
  /\ mqttClient' = TRUE
  /\ openClients' = openClients + 1
  /\ LET p == startProcessing(timers, starts + 2)
     IN  intervalId' = p.id /\ timers' = p.timers
  /\ LET s == IF dev THEN startSimulation(simRunning, simIntervals)
              ELSE [running |-> simRunning, ivs |-> simIntervals]
     IN  simRunning' = s.running /\ simIntervals' = s.ivs
  /\ modRunning' = TRUE
  /\ stopped' = FALSE
  /\ lastOp' = "other"
  /\ UNCHANGED <<procVars, outVars, admitted, simIntervalId, otherVars>>

\* ChainTraceIoTModule.stop(): stop the simulator and the processor, then
\* disconnect the collector.
Stop ==
  /\ LET s == stopSimulation(simRunning, simIntervalId, simIntervals)
     IN  simRunning' = s.running /\ simIntervalId' = s.id /\ simIntervals' = s.ivs
  /\ LET p == stopProcessing(intervalId, timers)
     IN  intervalId' = p.id /\ timers' = p.timers
  /\ openClients' = IF mqttClient THEN openClients - 1 ELSE openClients
  /\ mqttClient' = FALSE
  /\ modRunning' = FALSE
  /\ stopped' = TRUE
  /\ lastOp' = "other"
  /\ UNCHANGED <<procVars, outVars, admitted, starts, otherVars>>

\* A simulator setInterval callback of the given type: returns at once when
\* not running; otherwise publishes a reading when its MQTT client is
\* connected.
SimTick(type, connected) ==
  /\ simIntervals[type] > 0
  /\ lastOp' = IF simRunning /\ connected THEN "simPublish" ELSE "other"
  /\ UNCHANGED <<procVars, outVars, lifeVars, admitted, otherVars>>

\* The messages the broker delivers to the running module: those stamped
\* on arrival, one the collector accepts and one it rejects.
ModuleMessages == { m \in SampleMessages : m.timestamp = 0 }

Next ==
  \/ \E m \in ModuleMessages : handleMQTTMessage(m)
  \/ \E t \in timers : TimerTick(t)
  \/ FlushContinue
  \/ \E dev \in BOOLEAN : Start(dev)
  \/ Stop
  \/ \E type \in SimTypes, connected \in BOOLEAN : SimTick(type, connected)

Spec == Init /\ [][Next]_vars

\* ------------------------------------------------- the DataProcessor alone
\* BufferSpec drives one DataProcessor through its public addToQueue, its
\* interval callback and the continuation of its flush; the constructor has
\* started the interval and nothing stops it.

\* DataProcessor.addToQueue called with a reading built from message m.
AddToQueue(m) ==
  /\ admitted < MaxReadings
  /\ ApplyFlush(addToQueue(processingQueue, isProcessing,
                           BuildReading(m, admitted + 1)), "size")
  /\ admitted' = admitted + 1
  /\ lastOp' = "other"
  /\ UNCHANGED <<outVars, lifeVars, otherVars>>

BufferNext ==
  \/ \E m \in SampleMessages : AddToQueue(m)
  \/ \E t \in timers : TimerTick(t)
  \/ FlushContinue

BufferSpec == Init /\ [][BufferNext]_vars

\* The interval keeps firing and a started flush finishes.
BufferFairSpec ==
  /\ BufferSpec
  /\ WF_vars(\E t \in timers : TimerTick(t))
  /\ WF_vars(FlushContinue)

\* ------------------------------------------------ the SensorSimulator alone
\* SimSpec drives one SensorSimulator through startSimulation and
\* stopSimulation. sim.intervals[t] counts the setInterval timers of type t
\* that the runtime fires, each once per period of its type; sim.fired[t]
\* counts those that have fired in the current period of type t and
\* sim.published[t] the readings they published in it.

\* Calls of startSimulation that create intervals, in one run.
MaxSimStarts == 2

SimStartSimulation ==
  /\ sim.isRunning \/ \A t \in SimTypes : sim.intervals[t] < MaxSimStarts
  /\ LET s == startSimulation(sim.isRunning, sim.intervals)
     IN  sim' = [sim EXCEPT !.isRunning = s.running, !.intervals = s.ivs,
                            !.last = "startSimulation"]
  /\ UNCHANGED simRest

SimStopSimulation ==
  /\ LET s == stopSimulation(sim.isRunning, sim.intervalId, sim.intervals)
     IN  sim' = [sim EXCEPT !.isRunning = s.running, !.intervalId = s.id,
                            !.intervals = s.ivs, !.last = "stopSimulation"]
  /\ UNCHANGED simRest

\* One interval of the type fires: returns at once when not running,
\* otherwise publishes when the MQTT client is connected.
SimFire(type, connected) ==
  /\ sim.fired[type] < sim.intervals[type]
  /\ sim' = [sim EXCEPT !.fired[type] = @ + 1,
                        !.published[type] =
                           IF sim.isRunning /\ connected THEN @ + 1 ELSE @,
                        !.last = "interval"]
  /\ UNCHANGED simRest

\* The period of the type is over: each of its intervals is due again.
SimPeriod(type) ==
  /\ sim.intervals[type] > 0
  /\ sim.fired[type] = sim.intervals[type]
  /\ sim' = [sim EXCEPT !.fired[type] = 0, !.published[type] = 0,
                        !.last = "period"]
  /\ UNCHANGED simRest

SimNext ==
  \/ SimStartSimulation
  \/ SimStopSimulation
  \/ \E type \in SimTypes, connected \in BOOLEAN : SimFire(type, connected)
  \/ \E type \in SimTypes : SimPeriod(type)

SimSpec == Init /\ [][SimNext]_vars

\* ---------------------------------------------------------------- helpers
Last(s) == s[Len(s)]

\* The admission numbers of a sequence of readings, in order.
Seqs(q) == [i \in DOMAIN q |-> q[i].seq]

\* TRUE when the admission numbers of q are exactly lo, lo+1, ..., hi.
IsRun(q, lo, hi) ==
  /\ Len(q) = hi - lo + 1
  /\ \A i \in DOMAIN q : q[i].seq = lo + i - 1

\* A flush started in this step.
FlushStarted == Len(flushes') = Len(flushes) + 1

\* This step is an addToQueue call.
Admitted == admitted' = admitted + 1

\* This step is the continuation of a flush.
FlushFinished == Len(outcomes') = Len(outcomes) + 1

\* This step is a DataProcessor interval callback.
Ticked == lastOp' = "tick"

\* C1: every reading in the queue, and every reading of every batch, passes
\* the collector's validation.
C1_OnlyValidatedQueued ==
  /\ \A i \in DOMAIN processingQueue : validateSensorReading(processingQueue[i])
  /\ \A k \in DOMAIN flushes :
        \A i \in DOMAIN flushes[k].items : validateSensorReading(flushes[k].items[i])

\* C2: at most one flush is in progress, and a trigger (an addToQueue or a
\* timer tick) that arrives while one is in progress starts no flush and
\* removes nothing: a tick leaves the queue alone, an addToQueue appends.
C2_OneFlushInv ==
  /\ Len(flushes) - Len(outcomes) \in {0, 1}
  /\ isProcessing <=> (Len(flushes) - Len(outcomes) = 1)
  /\ isProcessing => batch = Last(flushes).items

C2_TriggerDuringFlush ==
  (isProcessing /\ (Admitted \/ Ticked)) =>
     /\ isProcessing'
     /\ ~FlushStarted
     /\ flushes' = flushes
     /\ batch' = batch
     /\ Ticked => processingQueue' = processingQueue
     /\ Admitted =>
          /\ Len(processingQueue') = Len(processingQueue) + 1
          /\ SubSeq(processingQueue', 1, Len(processingQueue)) = processingQueue
          /\ Last(processingQueue').seq = admitted'

\* C2: at most one flush in progress, and triggers during a flush are no-ops.
C2_AtMostOneFlush == []C2_OneFlushInv /\ [][C2_TriggerDuringFlush]_vars

\* C2 witness: a size trigger arrived during a flush and was a no-op, the
\* queue holding a full batch behind the one in flight.
C2_Witness ==
  /\ isProcessing
  /\ Len(processingQueue) >= BatchSize
  /\ Last(processingQueue).seq = admitted
  /\ Last(flushes).trigger = "size"

\* The admission numbers of the readings in a list of batches.
SeqsIn(log) == UNION { { log[j][l].seq : l \in DOMAIN log[j] } : j \in DOMAIN log }

\* C3: every batch whose flush succeeded has been passed to
\* ChainTraceIoTModule.handleProcessedData (listeners run synchronously inside
\* emit, so the hand-over is there as soon as the flush has finished).
C3_BatchHandedToModule ==
  \A k \in DOMAIN outcomes :
     outcomes[k] = "ok" =>
        \E j \in DOMAIN moduleHandled : Seqs(moduleHandled[j]) = Seqs(flushes[k].items)

\* C4: in every finished flush, each reading whose own processing succeeds has
\* its processed data emitted, whatever happens to the other readings.
C4_FailureIsolated ==
  \A k \in DOMAIN outcomes :
     \A i \in DOMAIN flushes[k].items :
        processSensorReading(flushes[k].items[i]).ok =>
           flushes[k].items[i].seq \in SeqsIn(processorHandled)

\* C5: an addToQueue that brings the queue to batchSize (or more) while no
\* flush is in progress starts a flush in the same step; the batch is the
\* first batchSize readings of the queue with the new reading appended.
C5_SizeTrigger ==
  (/\ Admitted
   /\ ~isProcessing
   /\ Len(processingQueue) + 1 >= BatchSize) =>
     /\ ~Ticked
     /\ isProcessing'
     /\ FlushStarted
     /\ Last(flushes').trigger = "size"
     /\ batch' = Last(flushes').items
     /\ Len(batch') = BatchSize
     /\ Len(processingQueue') = Len(processingQueue) + 1 - BatchSize
     /\ SubSeq(batch' \o processingQueue', 1, Len(processingQueue)) = processingQueue
     /\ Last(batch' \o processingQueue').seq = admitted'

\* C5: the size trigger flushes within the addToQueue call, on every step.
C5_ImmediateFlush == [][C5_SizeTrigger]_vars

\* C5 witness: the reading just admitted completed a batch and is the last
\* reading of the batch now in flight.
C5_Witness ==
  /\ isProcessing
  /\ Last(flushes).trigger = "size"
  /\ Last(batch).seq = admitted

\* No flush so far was started by the timer.
NoTimerFlush == \A k \in DOMAIN flushes : flushes[k].trigger # "timer"

\* C6: starting from the empty idle buffer and with no timer flush, fewer
\* than B readings trigger nothing, and N readings with B <= N < 2B have
\* triggered exactly one flush, whose batch is readings 1..B, while readings
\* B+1..N are in the queue.
C6_OneFlushAtBatchSize ==
  NoTimerFlush =>
     /\ admitted < BatchSize =>
          flushes = <<>> /\ IsRun(processingQueue, 1, admitted)
     /\ (BatchSize <= admitted /\ admitted < 2 * BatchSize) =>
          /\ Len(flushes) = 1
          /\ flushes[1].trigger = "size"
          /\ IsRun(flushes[1].items, 1, BatchSize)
          /\ IsRun(processingQueue, BatchSize + 1, admitted)

\* C6 witness: 2B-1 readings admitted, one flush done, B-1 readings queued.
C6_Witness ==
  /\ NoTimerFlush
  /\ admitted = 2 * BatchSize - 1
  /\ Len(flushes) = 1
  /\ Len(processingQueue) = BatchSize - 1

\* The readings removed so far, batch after batch, followed by the queue.
RECURSIVE Flatten(_)
Flatten(fs) == IF fs = <<>> THEN <<>> ELSE Head(fs).items \o Flatten(Tail(fs))

\* C7: batches then queue list the admitted readings in admission order (so
\* every reading of an earlier batch was admitted before every reading of a
\* later one), and a starting flush removes exactly the min(batchSize, length)
\* oldest readings.
C7_FifoInv == IsRun(Flatten(flushes) \o processingQueue, 1, admitted)

C7_FlushTakesOldest ==
  FlushStarted =>
     LET before == IF admitted' = admitted
                   THEN processingQueue
                   ELSE SubSeq(batch' \o processingQueue', 1, Len(processingQueue) + 1)
     IN  /\ batch' = Last(flushes').items
         /\ Len(batch') = Min(BatchSize, Len(before))
         /\ batch' = SubSeq(before, 1, Len(batch'))
         /\ processingQueue' = SubSeq(before, Len(batch') + 1, Len(before))
         /\ admitted' # admitted => SubSeq(before, 1, Len(processingQueue)) = processingQueue

\* C7: batches are FIFO and each flush takes the min(batchSize, length) oldest.
C7_FifoBatches == []C7_FifoInv /\ [][C7_FlushTakesOldest]_vars

\* C7 witness: two batches, the first shorter than batchSize (a timer flush),
\* the second a flush that left readings behind.
C7_Witness ==
  /\ Len(flushes) >= 2
  /\ Len(flushes[1].items) < BatchSize
  /\ Len(flushes[2].items) = BatchSize
  /\ Len(processingQueue) > 0

\* C8: a timer tick starts a flush exactly when the queue is non-empty and no
\* flush is in progress (the batch is then the oldest readings); any other
\* tick leaves the queue, the flag and the batches alone.
C8_TickStep ==
  Ticked =>
     IF Len(processingQueue) > 0 /\ ~isProcessing
     THEN /\ isProcessing'
          /\ FlushStarted
          /\ Last(flushes').trigger = "timer"
          /\ batch' \o processingQueue' = processingQueue
          /\ Len(batch') > 0
     ELSE /\ processingQueue' = processingQueue
          /\ isProcessing' = isProcessing
          /\ flushes' = flushes
          /\ batch' = batch

\* C8: a tick flushes exactly when the queue is non-empty and idle, on every step.
C8_TimerFlush == [][C8_TickStep]_vars

\* C8 witness: a tick has just flushed a queue shorter than batchSize.
C8_Witness ==
  /\ lastOp = "tick"
  /\ isProcessing
  /\ Last(flushes).trigger = "timer"
  /\ Len(batch) < BatchSize

\* C9: a flush whose processing fails emits nothing, puts nothing back, lets
\* no error escape and clears the flag; the readings of a failed batch are in
\* no other batch and not in the queue.
C9_FailedStep ==
  (FlushFinished /\ ~AllOk(batch)) =>
     /\ ~isProcessing'
     /\ processingQueue' = processingQueue
     /\ flushes' = flushes
     /\ unhandled' = unhandled
     /\ processorHandled' = processorHandled
     /\ Last(outcomes') = "failed"

C9_DiscardedInv ==
  /\ unhandled = 0
  /\ \A k \in DOMAIN outcomes :
       outcomes[k] = "failed" =>
          \A i \in DOMAIN flushes[k].items :
             LET n == flushes[k].items[i].seq
             IN  /\ \A q \in DOMAIN processingQueue : processingQueue[q].seq # n
                 /\ \A j \in DOMAIN flushes :
                      j # k => \A l \in DOMAIN flushes[j].items : flushes[j].items[l].seq # n
                 /\ n \notin SeqsIn(processorHandled)

\* C9: a failed batch is discarded, its error caught and the flag cleared.
C9_FailedBatchDiscarded == []C9_DiscardedInv /\ [][C9_FailedStep]_vars

\* C9 witness: a failed flush was followed by a flush that succeeded.
C9_Witness ==
  \E k \in DOMAIN outcomes :
     /\ outcomes[k] = "failed"
     /\ k + 1 \in DOMAIN outcomes
     /\ outcomes[k + 1] = "ok"

\* C10: once stop() has run (and until start() is called again) no
\* DataProcessor timer starts a flush and the simulator publishes nothing.
C10_AfterStopStep ==
  (stopped /\ stopped') =>
     /\ ~(Ticked /\ FlushStarted)
     /\ lastOp' # "simPublish"

\* C10: after stop() no timer-triggered flush and no simulator publish occurs.
C10_NoTimerAfterStop == [][C10_AfterStopStep]_vars

\* ====================================================== stateless functions
\* EvalSpec calls the stateless functions of the pipeline on drawn inputs and
\* keeps the call in probe; the functions keep no state between calls, so a
\* behaviour holds one call.

\* Numeric values drawn for a reading: the edges of every range and a
\* neighbour on each side.
ProbeNumbers == {-51, -50, 0, 1, 100, 101, 150, 151, 500, 2000, 2001}

\* Values drawn for a reading.
ProbeValues ==
  { NumV(n) : n \in ProbeNumbers }
    \cup { UndefV }
    \cup { ObjV(NumV(a), NumV(b)) : a \in {-91, 0, 90, 100}, b \in {-181, 0, 180} }
    \cup { ObjV(UndefV, NumV(0)) }

ProbeTypes ==
  {"temperature", "humidity", "pressure", "light", "vibration", "location"}

\* Timestamps drawn for a reading (minutes): stale, just fresh, current,
\* inside and beyond one hour ahead.
ProbeTimestamps == {Now - 6, Now - 5, Now, Now + 30, Now + 60, Now + 61}

\* Readings handed to DataProcessor.processSensorReading.
ProbeReadings ==
  { [seq |-> 1, sensorId |-> "S1", sensorType |-> t, value |-> v,
     timestamp |-> ts, metadata |-> md] :
       t \in ProbeTypes, v \in ProbeValues, ts \in ProbeTimestamps,
       md \in {0, 1} }

\* MQTT messages drawn for the ingestion path (timestamp 0: key absent).
ProbeMessages ==
  { [sensorId |-> "S1", sensorType |-> t, value |-> v, timestamp |-> ts,
     metadata |-> 0] :
       t \in ProbeTypes, v \in ProbeValues, ts \in ProbeTimestamps \cup {0} }

\* Minutes a reading may wait between its arrival and its processing.
ProcessDelays == {0, 1}

\* Sensor ids drawn for the validator: empty, two well-formed ones, one with
\* characters outside the set, one a character too long.
ValidatorIds ==
  { <<>>, <<"S", "1">>, <<"a", "_", "-">>, <<"S", " ", "!">>,
    [i \in 1..(MaxIdLength + 1) |-> "a"] }

\* Metadata drawn for the validator: absent, a small object, a string, a
\* cyclic object, and objects at and beyond the size limit.
ValidatorMetadata ==
  { [kind |-> "undefined", circular |-> FALSE, size |-> 0],
    [kind |-> "object", circular |-> FALSE, size |-> 2],
    [kind |-> "string", circular |-> FALSE, size |-> 2],
    [kind |-> "object", circular |-> TRUE, size |-> 2],
    [kind |-> "object", circular |-> FALSE, size |-> MetadataLimit],
    [kind |-> "object", circular |-> FALSE, size |-> MetadataLimit + 1] }

\* Readings handed to SensorDataValidator.validateSensorReading.
ValidatorReadings ==
  { [sensorId |-> id, sensorType |-> t, value |-> v, timestamp |-> ts,
     metadata |-> md] :
       id \in ValidatorIds,
       t \in {"temperature", "light", "location", "sound"},
       v \in {NumV(-1), NumV(0), NumV(151), UndefV, ObjV(NumV(0), NumV(0)),
              ObjV(NumV(100), NumV(0))},
       ts \in {0, -1, Now - PastLimit - 1, Now - PastLimit, Now,
               Now + FutureLimit, Now + FutureLimit + 1},
       md \in ValidatorMetadata }

\* One call of SensorDataValidator.validateSensorReading at time Now.
ProbeValidate(r) ==
  /\ probe.op = "none"
  /\ probe' = [op |-> "validate", reading |-> r,
               result |-> SensorDataValidator_validateSensorReading(r)]
  /\ UNCHANGED <<mainVars, sensors,
                 clock, collected, env>>

\* Quality scores drawn for a ProcessedData handed to checkForAlerts.
ProbeScores == {0, 65, 69, 70, 71, 100}

\* One call of DataProcessor.processSensorReading.
ProbeProcess(r) ==
  /\ probe.op = "none"
  /\ probe' = [op |-> "processSensorReading", reading |-> r,
               result |-> processSensorReading(r)]
  /\ UNCHANGED <<mainVars, sensors,
                 clock, collected, env>>

\* One call of DataProcessor.checkForAlerts on a batch of one or two items.
ProbeAlerts(scores) ==
  LET data == [i \in DOMAIN scores |-> [seq |-> i, qualityScore |-> scores[i]]]
  IN  /\ probe.op = "none"
      /\ probe' = [op |-> "checkForAlerts", data |-> data,
                   result |-> checkForAlerts(data)]
      /\ UNCHANGED <<mainVars, sensors,
                     clock, collected, env>>

\* One message through the ingestion path (handleMQTTMessage builds the
\* reading at time Now, processSensorData validates it) and then through
\* processSensorReading, d minutes later.
ProbeIngest(m, d) ==
  LET r == BuildReading(m, 1)
  IN  /\ probe.op = "none"
      /\ probe' = [op |-> "ingest", reading |-> r,
                   accepted |-> validateSensorReading(r),
                   result |-> processSensorReadingAt(r, Now + d)]
      /\ UNCHANGED <<mainVars, sensors,
                     clock, collected, env>>

\* Readings handed to all three validation implementations.
AgreeReadings ==
  { [seq |-> 1, sensorId |-> id, sensorType |-> t, value |-> v,
     timestamp |-> ts, metadata |-> 0] :
       id \in {"", "S1"}, t \in ProbeTypes \cup {"sound"}, v \in ProbeValues,
       ts \in {0, Now} }

\* The reading as the validator's operators take it: the sensorId as its
\* characters, no metadata.
AsValidatorReading(r) ==
  [sensorId |-> IF r.sensorId = "" THEN <<>> ELSE <<"S", "1">>,
   sensorType |-> r.sensorType, value |-> r.value, timestamp |-> r.timestamp,
   metadata |-> [kind |-> "undefined", circular |-> FALSE, size |-> 0]]

\* One reading through SensorDataCollector.validateSensorReading,
\* SensorDataValidator.validateSensorReading and DataProcessor.validateReading.
ProbeAgree(r) ==
  /\ probe.op = "none"
  /\ probe' = [op |-> "agree", reading |-> r,
               collector |-> validateSensorReading(r),
               validator |->
                 SensorDataValidator_validateSensorReading(AsValidatorReading(r)) = "ok",
               processor |-> validateReading(r)]
  /\ UNCHANGED <<mainVars, sensors, clock, collected, env>>

EvalNext ==
  \/ \E r \in AgreeReadings : ProbeAgree(r)
  \/ \E r \in ValidatorReadings : ProbeValidate(r)
  \/ \E m \in ProbeMessages, d \in ProcessDelays : ProbeIngest(m, d)
  \/ \E r \in ProbeReadings : ProbeProcess(r)
  \/ \E a \in ProbeScores : ProbeAlerts(<<a>>)
  \/ \E a, b \in ProbeScores : ProbeAlerts(<<a, b>>)

EvalSpec == Init /\ [][EvalNext]_vars

\* ============================================= SensorDataCollector registry
\* CollectorSpec runs a SensorDataCollector on its own: sensors are
\* registered and unregistered, messages arrive, time passes.

\* thresholds of a SensorConfig: at most one {min, max} per sensor type.
ThresholdConfigs ==
  { {},
    {[type |-> "temperature", min |-> 0, max |-> 100],
     [type |-> "pressure", min |-> 950, max |-> 1050]} }

\* Messages of the registry scenarios (timestamp and metadata absent).
CollectorMessages ==
  { [sensorId |-> id, sensorType |-> t, value |-> v, timestamp |-> 0,
     metadata |-> 0] :
       id \in SensorIds, t \in {"temperature", "pressure"},
       v \in {NumV(0), NumV(50), NumV(101), NumV(1100)} }

\* SensorDataCollector.checkForAlerts: the alerts emitted as 'sensorAlert'
\* for a reading; message holds the bound the text names.
thresholdAlerts(r, reg) ==
  LET cfg == reg[r.sensorId]
      ths == { t \in cfg.thresholds : t.type = r.sensorType }
  IN  IF ~cfg.registered \/ cfg.thresholds = {} \/ ths = {} THEN <<>>
      ELSE LET threshold == CHOOSE t \in ths : TRUE
               alert(bound) ==
                 [sensorId |-> r.sensorId, sensorType |-> r.sensorType,
                  value |-> r.value, threshold |-> threshold,
                  message |-> bound, timestamp |-> r.timestamp,
                  severity |-> "high"]
           IN  IF IsNumber(r.value) /\ r.value.n > threshold.max
               THEN <<alert("max")>>
               ELSE IF IsNumber(r.value) /\ r.value.n < threshold.min
               THEN <<alert("min")>>
               ELSE <<>>

\* updateSensorStatus: a registered sensor gets the status and lastSeen = now.
updateSensorStatus(reg, id, status) ==
  IF reg[id].registered
  THEN [reg EXCEPT ![id].status = status, ![id].silence = 0]
  ELSE reg

\* registerSensor: sensors.set(config.id, config).
registerSensor(id, ths, status) ==
  /\ sensors' = [sensors EXCEPT ![id] =
                   [registered |-> TRUE, thresholds |-> ths,
                    status |-> status, silence |-> 0]]
  /\ UNCHANGED <<mainVars, probe, clock,
                 collected, env>>

\* unregisterSensor: sensors.delete(sensorId).
unregisterSensor(id) ==
  /\ sensors[id].registered
  /\ sensors' = [sensors EXCEPT ![id] = NoSensor]
  /\ UNCHANGED <<mainVars, probe, clock,
                 collected, env>>

\* The 'message' callback of the MQTT client: handleMQTTMessage emits
\* 'sensorData', whose listener processSensorData validates the reading,
\* checks the thresholds and emits 'processedData'; then the sensor is
\* marked online.
onMessage(m) ==
  LET r == BuildReading(m, 1)
      valid == validateSensorReading(r)
  IN  /\ collected' = [op |-> "message",
                       reading |-> r,
                       valid |-> valid,
                       registered |-> sensors[r.sensorId].registered,
                       thresholds |-> sensors[r.sensorId].thresholds,
                       sensorAlert |-> IF valid THEN thresholdAlerts(r, sensors)
                                       ELSE <<>>,
                       processedData |-> valid]
      /\ sensors' = updateSensorStatus(sensors, r.sensorId, "online")
      /\ UNCHANGED <<mainVars, probe,
                     clock, env>>

\* One minute passes.
Minute ==
  /\ clock' = (clock + 1) % ClockWrap
  /\ sensors' = [s \in SensorIds |->
                   IF sensors[s].registered
                   THEN [sensors[s] EXCEPT
                           !.silence = Min(@ + 1, SilenceWindow + 1)]
                   ELSE sensors[s]]
  /\ UNCHANGED <<mainVars, probe,
                 collected, env>>

CollectorNext ==
  \/ \E id \in SensorIds, ths \in ThresholdConfigs,
        status \in {"online", "offline"} : registerSensor(id, ths, status)
  \/ \E id \in SensorIds : unregisterSensor(id)
  \/ \E m \in CollectorMessages : onMessage(m)
  \/ Minute

CollectorSpec == Init /\ [][CollectorNext]_vars

\* CollectorSpec in which time keeps passing; whether a message arrives or a
\* sensor is (un)registered is up to the environment.
CollectorFairSpec == CollectorSpec /\ WF_vars(Minute)

\* ==================================================== EnvironmentalSimulator
\* EnvSpec constructs one EnvironmentalSimulator and runs it. Quantities are
\* integers in units of 1/80 of the configured unit, so that every product
\* of the source is exact: Math.random() is q/4 with q drawn from Quarters,
\* hence (Math.random() - 0.5) * x * 0.1 is 2 * (q - 2) * x units. The light
\* and location fields of the state feed into no other field and are left
\* out.

\* Values of Math.random(), in quarters.
Quarters == {0, 3}
\* Seconds between two updateState calls.
TimeDeltas == {1, 10}
\* Values of the sine in updateVibration.
Sines == {-1, 1}

Trends == {"stable", "increasing", "decreasing", "fluctuating"}

\* Configurations per dimension, each with min <= max.
TemperatureConfigs ==
  { [min |-> 0, max |-> 4, variation |-> 1, trend |-> t] : t \in Trends }
    \cup { [min |-> 2, max |-> 2, variation |-> 1, trend |-> "increasing"] }
HumidityConfigs ==
  { [min |-> 0, max |-> 4, variation |-> 1, correlation |-> c] : c \in {-1, 1} }
PressureConfigs ==
  { [min |-> 0, max |-> 4, variation |-> 1, altitude |-> a] : a \in {0, 50} }
VibrationConfigs ==
  { [min |-> 0, max |-> 4, variation |-> 1, frequency |-> 1],
    [min |-> 2, max |-> 2, variation |-> 1, frequency |-> 1] }

Clamp_LowerOnly(min, max, x) == Max(min, x)

\* Math.max(min, Math.min(max, x))
Clamp(min, max, x) == Max(min, Min(max, x))

\* generateInitialValue: min + Math.random() * (max - min).
generateInitialValue(range, q) == range.min + (q * (range.max - range.min)) \div 4

\* updateTemperature with the two random draws q1 (trend) and q2 (jitter).
updateTemperature(e, timeDelta, q1, q2) ==
  LET c == e.config.temperature
      trended ==
        CASE c.trend = "increasing" ->
               e.state.temperature + 8 * c.variation * timeDelta
          [] c.trend = "decreasing" ->
               e.state.temperature - 8 * c.variation * timeDelta
          [] c.trend = "fluctuating" ->
               e.state.temperature + 4 * (q1 - 2) * c.variation * timeDelta
          [] OTHER ->
               e.state.temperature + (q1 - 2) * c.variation * timeDelta
  IN  Clamp(c.min, c.max, trended + 2 * (q2 - 2) * c.variation)

\* updateHumidity: tempChange is variation * timeDelta.
updateHumidity(e, timeDelta, q) ==
  LET c == e.config.humidity
      tempChange == c.variation * timeDelta
  IN  Clamp(c.min, c.max,
            e.state.humidity - 8 * tempChange * c.correlation
              + 2 * (q - 2) * c.variation)

\* updatePressure: the altitude effect is altitude * 0.001.
updatePressure(e, q) ==
  LET c == e.config.pressure
  IN  Clamp(c.min, c.max,
            e.state.pressure - (8 * c.altitude) \div 100
              + 2 * (q - 2) * c.variation)

\* updateVibration with the sine of the frequency pattern.
updateVibration(e, sine, q) ==
  LET c == e.config.vibration
  IN  Clamp(c.min, c.max,
            e.state.vibration + 8 * sine * c.variation
              + 4 * (q - 2) * c.variation)

\* new EnvironmentalSimulator(sensorId, config): initializeState.
EnvConstruct(config, qt, qh, qp, qv) ==
  /\ env.last = "none"
  /\ env' = [last |-> "init", isRunning |-> FALSE, config |-> config,
             state |-> [temperature |-> generateInitialValue(config.temperature, qt),
                        humidity |-> generateInitialValue(config.humidity, qh),
                        pressure |-> generateInitialValue(config.pressure, qp),
                        vibration |-> generateInitialValue(config.vibration, qv)]]
  /\ UNCHANGED <<mainVars, probe, sensors,
                 clock, collected>>

\* EnvironmentalSimulator.start
EnvStart ==
  /\ env.last # "none"
  /\ ~env.isRunning
  /\ env' = [env EXCEPT !.isRunning = TRUE]
  /\ UNCHANGED <<mainVars, probe, sensors,
                 clock, collected>>

\* EnvironmentalSimulator.stop
EnvStop ==
  /\ env.last # "none"
  /\ env.isRunning
  /\ env' = [env EXCEPT !.isRunning = FALSE]
  /\ UNCHANGED <<mainVars, probe, sensors,
                 clock, collected>>

\* The interval callback: updateState (each field from the state before the
\* call) and generateReadings.
EnvTick(timeDelta, q1, q2, qh, qp, sine, qv) ==
  /\ env.last # "none"
  /\ env.isRunning
  /\ env' = [env EXCEPT
               !.last = "tick",
               !.state = [temperature |-> updateTemperature(env, timeDelta, q1, q2),
                          humidity |-> updateHumidity(env, timeDelta, qh),
                          pressure |-> updatePressure(env, qp),
                          vibration |-> updateVibration(env, sine, qv)]]
  /\ UNCHANGED <<mainVars, probe, sensors,
                 clock, collected>>

\* updateConfig with one dimension in newConfig.
EnvUpdateConfig(dim, c) ==
  /\ env.last # "none"
  /\ env.config[dim] # c
  /\ env' = [env EXCEPT !.last = "config", !.config[dim] = c]
  /\ UNCHANGED <<mainVars, probe, sensors,
                 clock, collected>>

EnvNext ==
  \/ \E t \in TemperatureConfigs, h \in HumidityConfigs, p \in PressureConfigs,
        v \in VibrationConfigs, qt, qh, qp, qv \in Quarters :
        EnvConstruct([temperature |-> t, humidity |-> h, pressure |-> p,
                      vibration |-> v], qt, qh, qp, qv)
  \/ EnvStart
  \/ EnvStop
  \/ \E timeDelta \in TimeDeltas, q1, q2, qh, qp, qv \in Quarters,
        sine \in Sines : EnvTick(timeDelta, q1, q2, qh, qp, sine, qv)
  \/ \E c \in TemperatureConfigs : EnvUpdateConfig("temperature", c)
  \/ \E c \in HumidityConfigs : EnvUpdateConfig("humidity", c)
  \/ \E c \in PressureConfigs : EnvUpdateConfig("pressure", c)
  \/ \E c \in VibrationConfigs : EnvUpdateConfig("vibration", c)

EnvSpec == Init /\ [][EnvNext]_vars

\* ============================================================ ProofVerifier
\* ProofSpec runs the deployed ProofVerifier: pv.proofs[id] is proofs[id]
\* (an id beyond the sequence is a proof that does not exist), pv.now is
\* block.timestamp, pv.circuit says that the circuit "c1" is registered and
\* pv.verifier that the account "verifier" holds VERIFIER_ROLE. A call that
\* reverts leaves the contract as it was; pv.last records the call and
\* whether it succeeded.

\* Number of proofs submitted in one behaviour.
MaxProofs == 2
\* Last block timestamp of a behaviour.
MaxTime == 2

\* Accounts that send transactions; the deployer "admin" holds
\* DEFAULT_ADMIN_ROLE and never VERIFIER_ROLE.
Accounts == {"admin", "verifier"}

\* The ids a caller may pass.
ProofIds == 1..MaxProofs

\* onlyRole(VERIFIER_ROLE)
hasVerifierRole(p, sender) == sender = "verifier" /\ p.verifier

\* The contract after a call: its state and the record of the call.
Called(p, op, ok) == [p EXCEPT !.last = [op |-> op, ok |-> ok]]

canVerify_NoStatusCheck(p, sender, proofId) ==
  /\ hasVerifierRole(p, sender)
  /\ proofId \in DOMAIN p.proofs
  /\ p.proofs[proofId].expirationTime > p.now

\* The modifier and the three requires of verifyProof.
canVerify(p, sender, proofId) ==
  /\ hasVerifierRole(p, sender)
  /\ proofId \in DOMAIN p.proofs
  /\ p.proofs[proofId].status = "PENDING"
  /\ p.proofs[proofId].expirationTime > p.now

\* The assignments of verifyProof.
verified(p, proofId, isValid) ==
  [p EXCEPT !.proofs[proofId].status =
              IF isValid THEN "VERIFIED" ELSE "REJECTED"]

\* grantRole / revokeRole of VERIFIER_ROLE for the account "verifier".
PvSetVerifier(sender, granted) ==
  /\ pv' = IF sender = "admin"
           THEN Called([pv EXCEPT !.verifier = granted], "setRole", TRUE)
           ELSE Called(pv, "setRole", FALSE)
  /\ UNCHANGED <<iotVars, ac, tr, an, ns>>

PvRegisterCircuit(sender) ==
  /\ pv' = IF sender = "admin" /\ ~pv.circuit
           THEN Called([pv EXCEPT !.circuit = TRUE], "registerCircuit", TRUE)
           ELSE Called(pv, "registerCircuit", FALSE)
  /\ UNCHANGED <<iotVars, ac, tr, an, ns>>

PvSubmitProof(expirationTime) ==
  /\ Len(pv.proofs) < MaxProofs
  /\ pv' = IF pv.circuit /\ expirationTime > pv.now
           THEN Called([pv EXCEPT !.proofs =
                          Append(@, [status |-> "PENDING",
                                     expirationTime |-> expirationTime])],
                       "submitProof", TRUE)
           ELSE Called(pv, "submitProof", FALSE)
  /\ UNCHANGED <<iotVars, ac, tr, an, ns>>

PvVerifyProof(sender, proofId, isValid) ==
  /\ pv' = IF canVerify(pv, sender, proofId)
           THEN Called(verified(pv, proofId, isValid), "verifyProof", TRUE)
           ELSE Called(pv, "verifyProof", FALSE)
  /\ UNCHANGED <<iotVars, ac, tr, an, ns>>

\* batchVerifyProofs over two ids: the loop of verifyProof calls, reverted as
\* a whole when one of them reverts.
PvBatchVerifyProofs(sender, id1, valid1, id2, valid2) ==
  /\ pv' = IF canVerify(pv, sender, id1)
              /\ canVerify(verified(pv, id1, valid1), sender, id2)
           THEN Called(verified(verified(pv, id1, valid1), id2, valid2),
                       "batchVerifyProofs", TRUE)
           ELSE Called(pv, "batchVerifyProofs", FALSE)
  /\ UNCHANGED <<iotVars, ac, tr, an, ns>>

PvCheckProofExpiration(proofId) ==
  /\ pv' = IF proofId \notin DOMAIN pv.proofs
           THEN Called(pv, "checkProofExpiration", FALSE)
           ELSE IF /\ pv.proofs[proofId].expirationTime <= pv.now
                   /\ pv.proofs[proofId].status = "PENDING"
           THEN Called([pv EXCEPT !.proofs[proofId].status = "EXPIRED"],
                       "checkProofExpiration", TRUE)
           ELSE Called(pv, "checkProofExpiration", TRUE)
  /\ UNCHANGED <<iotVars, ac, tr, an, ns>>

\* A block is mined one second later.
PvMine ==
  /\ pv.now < MaxTime
  /\ pv' = Called([pv EXCEPT !.now = @ + 1], "mine", TRUE)
  /\ UNCHANGED <<iotVars, ac, tr, an, ns>>

ProofNext ==
  \/ \E sender \in Accounts, granted \in BOOLEAN : PvSetVerifier(sender, granted)
  \/ \E sender \in Accounts : PvRegisterCircuit(sender)
  \/ \E e \in 0..MaxTime : PvSubmitProof(e)
  \/ \E sender \in Accounts, id \in ProofIds, isValid \in BOOLEAN :
        PvVerifyProof(sender, id, isValid)
  \/ \E id1, id2 \in ProofIds, v1, v2 \in BOOLEAN :
        PvBatchVerifyProofs("verifier", id1, v1, id2, v2)
  \/ \E id \in ProofIds : PvCheckProofExpiration(id)
  \/ PvMine

ProofSpec == Init /\ [][ProofNext]_vars

\* ================================================== ChainTraceAccessControl
\* AccessSpec runs the deployed ChainTraceAccessControl with the calls
\* registerOrganization, grantRoleToOrganization, revokeRoleFromOrganization,
\* setPermissions and deactivateOrganization. ac.org[a] is "unregistered",
\* "active" or "inactive" (isRegistered and organizations[a].isActive),
\* ac.roles[a] the roles a holds and ac.permissions[a] the PermissionLevel
\* of a for one resource: the permission types granted (0 read, 1 write,
\* 2 delete, 3 verify) and expiresAt. A call whose require fails reverts and
\* leaves the contract as it was.

\* The deployer and one further account.
AcAccounts == {"admin", "org"}

\* The roles deactivateOrganization revokes.
RevokedRoles ==
  {"ADMIN_ROLE", "MANUFACTURER_ROLE", "LOGISTICS_ROLE", "RETAILER_ROLE",
   "VERIFIER_ROLE", "AUDITOR_ROLE"}

\* Roles passed to grantRoleToOrganization and revokeRoleFromOrganization.
GrantedRoles == {"ADMIN_ROLE", "MANUFACTURER_ROLE", "AUDITOR_ROLE", "CONSUMER_ROLE"}

\* PermissionLevels passed to setPermissions.
PermissionLevels ==
  { [granted |-> {}, expiresAt |-> 0],
    [granted |-> {0}, expiresAt |-> 0],
    [granted |-> {0, 1, 2, 3}, expiresAt |-> 1] }

\* Block timestamps at which hasPermission is asked.
AcTimes == {0, 1, 2}

\* hasPermission at block.timestamp = now.
hasPermission(a, account, permissionType, now) ==
  IF a.org[account] # "active" THEN FALSE
  ELSE IF /\ a.permissions[account].expiresAt > 0
          /\ now > a.permissions[account].expiresAt
  THEN FALSE
  ELSE permissionType \in a.permissions[account].granted

canGrant_NoActiveCheck(a, sender, account) ==
  /\ "ADMIN_ROLE" \in a.roles[sender]
  /\ a.org[account] # "unregistered"

\* The modifier and the requires of grantRoleToOrganization.
canGrant(a, sender, account) ==
  /\ "ADMIN_ROLE" \in a.roles[sender]
  /\ a.org[account] # "unregistered"
  /\ a.org[account] = "active"

AcRegisterOrganization(sender) ==
  /\ ac.org[sender] = "unregistered"
  /\ ac' = [ac EXCEPT !.org[sender] = "active",
                       !.roles[sender] = @ \cup {"CONSUMER_ROLE"}]
  /\ UNCHANGED <<iotVars, pv, tr, an, ns>>

AcGrantRoleToOrganization(sender, role, account) ==
  /\ canGrant(ac, sender, account)
  /\ ac' = [ac EXCEPT !.roles[account] = @ \cup {role}]
  /\ UNCHANGED <<iotVars, pv, tr, an, ns>>

AcRevokeRoleFromOrganization(sender, role, account) ==
  /\ "ADMIN_ROLE" \in ac.roles[sender]
  /\ ac' = [ac EXCEPT !.roles[account] = @ \ {role}]
  /\ UNCHANGED <<iotVars, pv, tr, an, ns>>

AcSetPermissions(sender, account, level) ==
  /\ "ADMIN_ROLE" \in ac.roles[sender]
  /\ ac.org[account] # "unregistered"
  /\ ac' = [ac EXCEPT !.permissions[account] = level]
  /\ UNCHANGED <<iotVars, pv, tr, an, ns>>

AcDeactivateOrganization(sender, account) ==
  /\ "ADMIN_ROLE" \in ac.roles[sender]
  /\ ac.org[account] # "unregistered"
  /\ ac' = [ac EXCEPT !.org[account] = "inactive",
                       !.roles[account] = @ \ RevokedRoles]
  /\ UNCHANGED <<iotVars, pv, tr, an, ns>>

AccessNext ==
  \/ \E sender \in AcAccounts : AcRegisterOrganization(sender)
  \/ \E sender, account \in AcAccounts, role \in GrantedRoles :
        AcGrantRoleToOrganization(sender, role, account)
  \/ \E sender, account \in AcAccounts, role \in GrantedRoles :
        AcRevokeRoleFromOrganization(sender, role, account)
  \/ \E sender, account \in AcAccounts, level \in PermissionLevels :
        AcSetPermissions(sender, account, level)
  \/ \E sender, account \in AcAccounts : AcDeactivateOrganization(sender, account)

AccessSpec == Init /\ [][AccessNext]_vars

\* ============================================================ TraceRegistry
\* TraceSpec runs the deployed TraceRegistry. tr.paused is Pausable's flag,
\* tr.manufacturer and tr.verifier say whether the accounts "maker" and
\* "verifier" hold MANUFACTURER_ROLE and VERIFIER_ROLE, tr.products counts
\* the registered products (all of "maker"), tr.batches[batchId] holds a
\* batch's productId and isVerified and tr.traceRecords[traceId] a trace
\* record's batchId. tr.last is the last transaction and whether it
\* succeeded; one that reverts leaves the rest as it was.

\* Products, batches and trace records created in one run, each.
MaxRecords == 2

TrAccounts == {"admin", "maker", "verifier"}

\* onlyRole(MANUFACTURER_ROLE) and onlyRole(VERIFIER_ROLE)
isManufacturer(t, sender) == sender = "maker" /\ t.manufacturer
isVerifier(t, sender) == sender = "verifier" /\ t.verifier

\* The data of the registry: what pausing is to protect.
TrData(t) == <<t.products, t.batches, t.traceRecords>>

\* grantRole of the inherited AccessControl, by the deployer.
TrGrantRole(sender, account) ==
  /\ tr' = IF sender = "admin"
           THEN Called([tr EXCEPT !.manufacturer = @ \/ account = "maker",
                                  !.verifier = @ \/ account = "verifier"],
                       "grantRole", TRUE)
           ELSE Called(tr, "grantRole", FALSE)
  /\ UNCHANGED <<iotVars, pv, ac, an, ns>>

TrRegisterProduct(sender) ==
  /\ tr.products < MaxRecords
  /\ tr' = IF isManufacturer(tr, sender) /\ ~tr.paused
           THEN Called([tr EXCEPT !.products = @ + 1], "registerProduct", TRUE)
           ELSE Called(tr, "registerProduct", FALSE)
  /\ UNCHANGED <<iotVars, pv, ac, an, ns>>

TrCreateBatch(sender, productId) ==
  /\ Len(tr.batches) < MaxRecords
  /\ tr' = IF /\ isManufacturer(tr, sender)
              /\ ~tr.paused
              /\ productId \in 1..tr.products
           THEN Called([tr EXCEPT !.batches =
                          Append(@, [productId |-> productId,
                                     isVerified |-> FALSE])],
                       "createBatch", TRUE)
           ELSE Called(tr, "createBatch", FALSE)
  /\ UNCHANGED <<iotVars, pv, ac, an, ns>>

TrAddTraceRecord(sender, batchId) ==
  /\ Len(tr.traceRecords) < MaxRecords
  /\ tr' = IF ~tr.paused /\ batchId \in DOMAIN tr.batches
           THEN Called([tr EXCEPT !.traceRecords = Append(@, batchId)],
                       "addTraceRecord", TRUE)
           ELSE Called(tr, "addTraceRecord", FALSE)
  /\ UNCHANGED <<iotVars, pv, ac, an, ns>>

TrVerifyBatch(sender, batchId, isVerified) ==
  /\ tr' = IF isVerifier(tr, sender) /\ batchId \in DOMAIN tr.batches
           THEN Called([tr EXCEPT !.batches[batchId].isVerified = isVerified],
                       "verifyBatch", TRUE)
           ELSE Called(tr, "verifyBatch", FALSE)
  /\ UNCHANGED <<iotVars, pv, ac, an, ns>>

TrPause(sender) ==
  /\ tr' = IF sender = "admin" /\ ~tr.paused
           THEN Called([tr EXCEPT !.paused = TRUE], "pause", TRUE)
           ELSE Called(tr, "pause", FALSE)
  /\ UNCHANGED <<iotVars, pv, ac, an, ns>>

TrUnpause(sender) ==
  /\ tr' = IF sender = "admin" /\ tr.paused
           THEN Called([tr EXCEPT !.paused = FALSE], "unpause", TRUE)
           ELSE Called(tr, "unpause", FALSE)
  /\ UNCHANGED <<iotVars, pv, ac, an, ns>>

TraceNext ==
  \/ \E sender \in TrAccounts, account \in {"maker", "verifier"} :
        TrGrantRole(sender, account)
  \/ \E sender \in TrAccounts : TrRegisterProduct(sender)
  \/ \E sender \in TrAccounts, productId \in 1..MaxRecords :
        TrCreateBatch(sender, productId)
  \/ \E sender \in TrAccounts, batchId \in 1..MaxRecords :
        TrAddTraceRecord(sender, batchId)
  \/ \E sender \in TrAccounts, batchId \in 1..MaxRecords, isVerified \in BOOLEAN :
        TrVerifyBatch(sender, batchId, isVerified)
  \/ \E sender \in TrAccounts : TrPause(sender)
  \/ \E sender \in TrAccounts : TrUnpause(sender)

TraceSpec == Init /\ [][TraceNext]_vars

\* ========================================================= AnalyticsService
\* AnalyticsSpec runs one AnalyticsService with metrics enabled. Metrics are
\* numbered in the order they are recorded. an.metricsBuffer, an.isProcessing
\* and an.flushTimer (set or null) are the fields of the service,
\* an.metricsToFlush the batch of the flush that is awaiting processMetrics,
\* an.processed the metrics passed to processMetrics so far, an.emitted the
\* last event emitted, an.cleanup the state of the promise of cleanup()
\* ("none" before the call, "awaiting" while it awaits its flush, "resolved")
\* and an.before the number of metrics recorded before the cleanup call.

\* config.batchSize
AnBatchSize == 2

\* Metrics recorded in one run.
MaxMetrics == 4

\* flushMetrics up to its await: a no-op while a flush is in progress or
\* the buffer is empty, else the whole buffer goes to processMetrics.
flushMetrics(a) ==
  IF a.isProcessing \/ a.metricsBuffer = <<>> THEN a
  ELSE [a EXCEPT !.isProcessing = TRUE,
                 !.metricsToFlush = a.metricsBuffer,
                 !.metricsBuffer = <<>>,
                 !.processed = @ \cup Range(a.metricsBuffer)]

\* recordCustomMetric: addMetric pushes, emits and flushes a full buffer.
AnRecord ==
  /\ an.recorded < MaxMetrics
  /\ LET pushed == [an EXCEPT !.recorded = @ + 1,
                              !.metricsBuffer = Append(@, an.recorded + 1),
                              !.emitted = "metricRecorded"]
     IN an' = IF Len(pushed.metricsBuffer) >= AnBatchSize
              THEN flushMetrics(pushed)
              ELSE pushed
  /\ UNCHANGED <<iotVars, pv, ac, tr, ns>>

\* The flush timer fires.
AnTimer ==
  /\ an.flushTimer
  /\ an' = flushMetrics(an)
  /\ UNCHANGED <<iotVars, pv, ac, tr, ns>>

\* processMetrics settles: the rest of flushMetrics after its await. A
\* cleanup that awaits this flush resolves with it.
AnFlushDone(ok) ==
  /\ an.isProcessing
  /\ an' = [an EXCEPT
              !.emitted = IF ok THEN "metricsFlushed" ELSE "error",
              !.metricsBuffer = IF ok THEN @ ELSE an.metricsBuffer \o an.metricsBuffer,
              !.metricsToFlush = <<>>,
              !.isProcessing = FALSE,
              !.cleanup = IF @ = "awaiting" THEN "resolved" ELSE @]
  /\ UNCHANGED <<iotVars, pv, ac, tr, ns>>

\* cleanup(): clears the timer and awaits flushMetrics(), which returns at
\* once when a flush is in progress or the buffer is empty.
AnCleanup ==
  /\ an.cleanup = "none"
  /\ LET cleared == [an EXCEPT !.flushTimer = FALSE, !.before = an.recorded]
         flushed == flushMetrics(cleared)
     IN an' = [flushed EXCEPT !.cleanup =
                  IF flushed.isProcessing /\ ~an.isProcessing
                  THEN "awaiting" ELSE "resolved"]
  /\ UNCHANGED <<iotVars, pv, ac, tr, ns>>

AnalyticsNext ==
  \/ AnRecord
  \/ AnTimer
  \/ \E ok \in BOOLEAN : AnFlushDone(ok)
  \/ AnCleanup

AnalyticsSpec == Init /\ [][AnalyticsNext]_vars

\* ====================================================== NotificationService
\* NotifySpec runs one NotificationService. Messages are numbered in the
\* order they are queued and carry retryCount and maxRetries.
\* ns.messageQueue and ns.isProcessing are the fields of the service,
\* ns.sending holds the message whose send the loop awaits, ns.loops counts
\* the processQueue calls that are inside their try block, ns.attempts[id]
\* the sends started for message id and ns.queued the queueMessage calls.

\* Calls of queueMessage in one run.
MaxMessages == 3

\* maxRetries of a message queued without one.
DefaultMaxRetries == 3

\* maxRetries passed to queueMessage; 0 stands for an absent one as well.
MaxRetriesArgs == {0, 1}

shouldRetry_Once_More(success, message) ==
  ~success /\ message.retryCount <= message.maxRetries

\* The retry test of the loop.
shouldRetry(success, message) ==
  ~success /\ message.retryCount < message.maxRetries

\* The head of the while loop of processQueue: shifts the next message and
\* awaits its send, or leaves through the finally block.
NsLoop(n) ==
  IF Len(n.messageQueue) > 0
  THEN [n EXCEPT !.messageQueue = Tail(@),
                 !.sending = <<Head(n.messageQueue)>>,
                 !.attempts[Head(n.messageQueue).id] = @ + 1]
  ELSE [n EXCEPT !.sending = <<>>,
                 !.isProcessing = FALSE,
                 !.loops = @ - 1]

\* processQueue up to its first await.
NsProcessQueue(n) ==
  IF n.isProcessing \/ Len(n.messageQueue) = 0 THEN n
  ELSE NsLoop([n EXCEPT !.isProcessing = TRUE, !.loops = @ + 1])

\* queueMessage: builds the message, pushes it and starts processing when
\* none is running.
NsQueueMessage(maxRetries) ==
  /\ ns.queued < MaxMessages
  /\ LET message == [id |-> ns.queued + 1, retryCount |-> 0,
                     maxRetries |-> IF maxRetries = 0 THEN DefaultMaxRetries
                                    ELSE maxRetries]
         pushed == [ns EXCEPT !.queued = @ + 1,
                              !.attempts = Append(@, 0),
                              !.messageQueue = Append(@, message)]
     IN  ns' = IF ~pushed.isProcessing THEN NsProcessQueue(pushed) ELSE pushed
  /\ UNCHANGED <<iotVars, pv, ac, tr, an>>

\* The awaited send settles with true or false; the loop requeues the
\* message for a retry and goes on.
NsSendDone(success) ==
  /\ ns.sending # <<>>
  /\ LET message == ns.sending[1]
         retried == IF shouldRetry(success, message)
                    THEN [ns EXCEPT !.messageQueue =
                            Append(@, [message EXCEPT !.retryCount = @ + 1])]
                    ELSE ns
     IN  ns' = NsLoop(retried)
  /\ UNCHANGED <<iotVars, pv, ac, tr, an>>

NotifyNext ==
  \/ \E maxRetries \in MaxRetriesArgs : NsQueueMessage(maxRetries)
  \/ \E success \in BOOLEAN : NsSendDone(success)

NotifySpec == Init /\ [][NotifyNext]_vars

\* Every send settles.
NotifyFairSpec == NotifySpec /\ WF_vars(\E success \in BOOLEAN : NsSendDone(success))

\* The quality score the specification prescribes for a reading under a
\* reasonableness predicate.
PrescribedScore(r, reasonable) ==
  Max(0, 100 - (IF Now - r.timestamp > StaleAfter THEN 20 ELSE 0)
             - (IF ~reasonable THEN 10 ELSE 0)
             - (IF r.metadata = 0 THEN 5 ELSE 0))

\* C11: the quality score of a processed reading is max(0, 100 - 20 if older
\* than five minutes - 10 if the value fails the reasonableness check - 5 if
\* the metadata is absent or empty).
C11_QualityScore ==
  (probe.op = "processSensorReading" /\ probe.result.ok) =>
     probe.result.data.qualityScore
        = PrescribedScore(probe.reading, isValueReasonable(probe.reading))

\* The reading of the last message lies outside the threshold its sensor had
\* registered for the reading's type.
OutsideThreshold ==
  /\ collected.registered
  /\ IsNumber(collected.reading.value)
  /\ \E t \in collected.thresholds :
        /\ t.type = collected.reading.sensorType
        /\ (collected.reading.value.n > t.max \/ collected.reading.value.n < t.min)

\* C13: a message raises a threshold alert exactly when its sensor is
\* registered with a {min, max} for the reading's type and the value lies
\* outside it; the alert has type THRESHOLD_EXCEEDED and severity high and
\* its message names the violated bound.
C13_ThresholdAlert ==
  collected.op = "message" =>
     /\ (collected.sensorAlert # <<>>) <=> OutsideThreshold
     /\ \A k \in DOMAIN collected.sensorAlert :
          LET a == collected.sensorAlert[k]
          IN  /\ "type" \in DOMAIN a
              /\ a.type = "THRESHOLD_EXCEEDED"
              /\ a.severity = "high"
              /\ a.message = (IF a.value.n > a.threshold.max THEN "max" ELSE "min")

\* The last call took a message through ingestion and processing and both
\* accepted it.
Ingested ==
  /\ probe.op = "ingest"
  /\ probe.accepted
  /\ probe.result.ok

FirstFailure(r) ==
  IF requiredFields(r) # "ok" THEN requiredFields(r)
  ELSE IF validateSensorId(r.sensorId) # "ok" THEN validateSensorId(r.sensorId)
  ELSE IF validateTimestamp(r.timestamp, Now) # "ok"
       THEN validateTimestamp(r.timestamp, Now)
  ELSE IF typeSpecific(r) # "ok" THEN typeSpecific(r)
  ELSE IF r.metadata.kind # "undefined" THEN validateMetadata(r.metadata)
  ELSE "ok"

\* C15: validate applies required fields, sensorId, timestamp window, type
\* range and metadata in this order and fails with the reason of the first
\* check that fails; it accepts only a reading that passes all five.
C15_ChecksInOrder ==
  probe.op = "validate" => probe.result = FirstFailure(probe.reading)

\* C16: a reading stamped more than one hour after the validation time is
\* rejected, with the future-timestamp reason once the required-field and
\* sensorId checks have passed; an accepted reading's timestamp lies in
\* [-30 days, +1 hour] around the validation time.
C16_TimestampWindow ==
  probe.op = "validate" =>
     LET r == probe.reading
     IN  /\ r.timestamp - Now > FutureLimit =>
               /\ probe.result # "ok"
               /\ (requiredFields(r) = "ok" /\ validateSensorId(r.sensorId) = "ok")
                     => probe.result
                          = "Timestamp cannot be more than 1 hour in the future"
         /\ probe.result = "ok" =>
               /\ r.timestamp - Now <= FutureLimit
               /\ r.timestamp - Now >= -PastLimit

\* The value of a reading lies in the range of the reading's type.
InTypeRange(r) ==
  CASE r.sensorType = "temperature" ->
         IsNumber(r.value) /\ r.value.n >= -50 /\ r.value.n <= 150
    [] r.sensorType = "humidity" ->
         IsNumber(r.value) /\ r.value.n >= 0 /\ r.value.n <= 100
    [] r.sensorType = "pressure" ->
         IsNumber(r.value) /\ r.value.n >= 0 /\ r.value.n <= 2000
    [] r.sensorType \in {"light", "vibration"} ->
         IsNumber(r.value) /\ r.value.n >= 0
    [] r.sensorType = "location" ->
         /\ r.value.kind = "object"
         /\ IsNumber(r.value.latitude) /\ IsNumber(r.value.longitude)
         /\ r.value.latitude.n >= -90 /\ r.value.latitude.n <= 90
         /\ r.value.longitude.n >= -180 /\ r.value.longitude.n <= 180

\* C17: with the required fields present, the ingestion path accepts a
\* reading exactly when its value lies in the range of its type; a zero
\* temperature, humidity, pressure, light or vibration is accepted.
C17_AcceptedIffInRange ==
  (probe.op = "ingest" /\ probe.reading.value.kind # "undefined") =>
     (probe.accepted <=> InTypeRange(probe.reading))

\* The fraction num/den lies in [0,1].
InUnitInterval(f) == f.den > 0 /\ 0 <= f.num /\ f.num <= f.den

\* C18 as stated: the normalizedValue of every reading that passes
\* validation, whatever its type, lies in [0,1].
C18_NormalizedInUnitInterval ==
  Ingested =>
     InUnitInterval(probe.result.data.transformedData.normalizedValue)

\* C18 amended: the normalizedValue of every processed temperature,
\* humidity, pressure or location reading lies in [0,1]; that of a light or
\* vibration reading is the raw value.
C18_NormalizedByType ==
  (probe.op \in {"processSensorReading", "ingest"} /\ probe.result.ok) =>
     LET d == probe.result.data
         f == d.transformedData.normalizedValue
     IN  IF d.sensorType \in {"temperature", "humidity", "pressure", "location"}
         THEN InUnitInterval(f)
         ELSE f.den = 1 /\ f.num = (IF IsNumber(d.value) THEN d.value.n ELSE 0)

\* C18 witness: a temperature at the lower edge of its range was processed
\* and normalized to 0.
C18_Witness ==
  /\ probe.op = "processSensorReading"
  /\ probe.result.ok
  /\ probe.reading.sensorType = "temperature"
  /\ probe.reading.value.n = -50
  /\ probe.result.data.transformedData.normalizedValue.num = 0

\* A registered sensor from which no reading has been seen for longer than
\* the silence window.
Silent(id) ==
  sensors[id].registered /\ sensors[id].silence > SilenceWindow

\* C19: a registered sensor that has been silent for longer than the silence
\* window is eventually marked offline, unless a reading of it arrives or it
\* is unregistered first.
C19_SilentSensorGoesOffline ==
  \A id \in SensorIds :
     Silent(id) ~> (~Silent(id) \/ sensors[id].status = "offline")

\* The four clamped dimensions of the simulator's state.
ClampedDimensions == {"temperature", "humidity", "pressure", "vibration"}

\* C20: after construction and after every tick the temperature, humidity,
\* pressure and vibration of the simulator's state lie within the [min,max]
\* of the configuration in force.
C20_StateWithinRange ==
  env.last \in {"init", "tick"} =>
     \A d \in ClampedDimensions :
        /\ env.config[d].min <= env.state[d]
        /\ env.state[d] <= env.config[d].max

\* C20 witness: a tick under an increasing trend left the temperature at the
\* maximum of a proper range, and the humidity at its minimum.
C20_Witness ==
  /\ env.last = "tick"
  /\ env.config.temperature.trend = "increasing"
  /\ env.config.temperature.min < env.config.temperature.max
  /\ env.state.temperature = env.config.temperature.max
  /\ env.state.humidity = env.config.humidity.min

\* The proofs whose status a step changes.
StatusChanged ==
  { id \in DOMAIN pv.proofs : pv'.proofs[id].status # pv.proofs[id].status }

\* C21, one step: a status other than PENDING never changes; a verifyProof
\* that succeeds moves one existing PENDING proof that has not reached its
\* expiration time to VERIFIED or REJECTED and one that reverts changes
\* nothing; checkProofExpiration only moves PENDING to EXPIRED.
C21_Step ==
  /\ DOMAIN pv.proofs \subseteq DOMAIN pv'.proofs
  /\ \A id \in StatusChanged : pv.proofs[id].status = "PENDING"
  /\ pv'.last.op = "verifyProof" =>
        IF pv'.last.ok
        THEN \E id \in DOMAIN pv.proofs :
                /\ StatusChanged = {id}
                /\ pv.proofs[id].expirationTime > pv.now
                /\ pv'.proofs[id].status \in {"VERIFIED", "REJECTED"}
        ELSE pv'.proofs = pv.proofs
  /\ pv'.last.op = "checkProofExpiration" =>
        \A id \in StatusChanged :
           /\ pv'.proofs[id].status = "EXPIRED"
           /\ pv.proofs[id].expirationTime <= pv.now

\* C21: VERIFIED, REJECTED and EXPIRED are terminal.
C21_TerminalStatus == [][C21_Step]_vars

\* C21 witness: with one proof verified and one expired, a further
\* verifyProof by the verifier has just reverted.
C21_Witness ==
  /\ pv.last = [op |-> "verifyProof", ok |-> FALSE]
  /\ pv.verifier
  /\ \E id \in DOMAIN pv.proofs : pv.proofs[id].status = "VERIFIED"
  /\ \E id \in DOMAIN pv.proofs : pv.proofs[id].status = "EXPIRED"

\* C22: an organization that has been deactivated holds none of the roles
\* ADMIN, MANUFACTURER, LOGISTICS, RETAILER, VERIFIER, AUDITOR, and
\* hasPermission is false for it for every permission type at every time.
C22_DeactivatedHasNothing ==
  \A a \in AcAccounts :
     ac.org[a] = "inactive" =>
        /\ ac.roles[a] \cap RevokedRoles = {}
        /\ \A t \in 0..4, now \in AcTimes : ~hasPermission(ac, a, t, now)

\* C22 witness: the deployer registered, was deactivated and thereby lost
\* ADMIN_ROLE, and the other organization is deactivated while its
\* PermissionLevel grants something.
C22_Witness ==
  /\ ac.org["admin"] = "inactive"
  /\ "ADMIN_ROLE" \notin ac.roles["admin"]
  /\ ac.org["org"] = "inactive"
  /\ ac.permissions["org"].granted # {}

\* The operations the claim says are prevented while paused.
PreventedOps == {"registerProduct", "createBatch", "addTraceRecord", "verifyBatch"}

\* C23: while TraceRegistry is paused every call to registerProduct,
\* createBatch, addTraceRecord and verifyBatch reverts, and no product,
\* batch, trace record or batch verification flag changes.
C23_PausedPreventsOperations ==
  [][tr.paused =>
       /\ TrData(tr') = TrData(tr)
       /\ tr'.last.op \in PreventedOps => ~tr'.last.ok]_vars

\* C24: when processing the flushed metrics fails, the buffer afterwards
\* holds the failed batch followed by the metrics recorded during the
\* flush, each exactly once.
C24_FailedBatchRequeued ==
  [][(an.isProcessing /\ ~an'.isProcessing /\ an'.emitted = "error") =>
       an'.metricsBuffer = an.metricsToFlush \o an.metricsBuffer]_vars

\* C25: when cleanup's promise has resolved, the flush timer is cleared and
\* every metric recorded before the cleanup call has been passed to
\* processMetrics.
C25_CleanupFlushesAll ==
  an.cleanup = "resolved" =>
     /\ ~an.flushTimer
     /\ 1..an.before \subseteq an.processed

\* The number of batches that hold reading n.
BatchesWith(n) ==
  Cardinality({ k \in DOMAIN flushes :
                  \E i \in DOMAIN flushes[k].items : flushes[k].items[i].seq = n })

\* The number of places of a sequence of readings that hold reading n.
Places(q, n) == Cardinality({ i \in DOMAIN q : q[i].seq = n })

\* C26: every admitted reading is either still in the queue (once) or was
\* removed in exactly one batch (once), never both, and the queue and the
\* batches hold admitted readings only.
C26_Conservation ==
  /\ \A n \in 1..admitted :
        \/ /\ Places(processingQueue, n) = 1
           /\ BatchesWith(n) = 0
        \/ /\ Places(processingQueue, n) = 0
           /\ BatchesWith(n) = 1
           /\ Places(Flatten(flushes), n) = 1
  /\ \A i \in DOMAIN processingQueue : processingQueue[i].seq \in 1..admitted
  /\ Len(Flatten(flushes)) + Len(processingQueue) = admitted

\* C26 witness: of the admitted readings one batch failed, another batch
\* was removed while it was processed or after, and a reading is queued.
C26_Witness ==
  /\ Len(flushes) >= 2
  /\ "failed" \in Range(outcomes)
  /\ Len(processingQueue) > 0
  /\ admitted = MaxReadings

\* C27: with the interval firing and every started flush finishing, every
\* admitted reading is eventually removed in a batch and the processing
\* flag is always eventually cleared.
C27_EventuallyFlushed ==
  /\ \A n \in 1..MaxReadings : (admitted >= n) ~> (BatchesWith(n) > 0)
  /\ isProcessing ~> ~isProcessing

\* C27 witness: every admitted reading has been removed, the last one by a
\* timer flush of a queue shorter than batchSize whose processing failed,
\* and the flag is clear again.
C27_Witness ==
  /\ admitted = MaxReadings
  /\ processingQueue = <<>>
  /\ ~isProcessing
  /\ Last(flushes).trigger = "timer"
  /\ Len(Last(flushes).items) < BatchSize
  /\ Last(outcomes) = "failed"

\* C28: at most one publishing interval per simulated sensor type is active
\* and at most one reading per type is published per period, as after the
\* first start; startSimulation while running changes nothing.
C28_OneIntervalPerType ==
  /\ [](\A t \in SimTypes :
          /\ sim.isRunning => sim.intervals[t] <= 1
          /\ sim.published[t] <= 1)
  /\ [][(sim.isRunning /\ sim'.last = "startSimulation") =>
          /\ sim'.isRunning
          /\ sim'.intervals = sim.intervals
          /\ sim'.published = sim.published]_vars

\* The messages the service holds: queued or being sent.
NsHeld == Range(ns.messageQueue) \cup Range(ns.sending)

\* C29: at most one processQueue loop runs at a time, and each queued
\* message is attempted at most maxRetries + 1 times.
C29_Inv ==
  /\ ns.loops <= 1
  /\ ns.isProcessing <=> ns.loops = 1
  /\ ns.isProcessing <=> ns.sending # <<>>
  /\ \A m \in NsHeld : ns.attempts[m.id] <= m.maxRetries + 1
  /\ \A m \in Range(ns.messageQueue) : ns.attempts[m.id] <= m.retryCount
  /\ \A id \in DOMAIN ns.attempts : ns.attempts[id] <= DefaultMaxRetries + 1

\* C29: for any interleaving of queueMessage calls with the loop, at most
\* one loop runs, a message is attempted at most maxRetries + 1 times, a
\* loop that ends leaves the queue empty and isProcessing false, and with
\* every send settling, also when every send fails, the loop ends.
C29_LoopTerminates ==
  /\ []C29_Inv
  /\ [][(ns.isProcessing /\ ~ns'.isProcessing) => ns'.messageQueue = <<>>]_vars
  /\ ns.isProcessing ~> (~ns.isProcessing /\ ns.messageQueue = <<>>)

\* C29 witness: the first message failed maxRetries + 1 times, the second
\* was queued while the loop ran, and the loop has ended with an empty queue.
C29_Witness ==
  /\ ns.queued = MaxMessages
  /\ ns.attempts[1] = DefaultMaxRetries + 1
  /\ ns.attempts[2] > 1
  /\ ~ns.isProcessing
  /\ ns.messageQueue = <<>>

\* C30: the collector, the validator and the processor accept the same
\* readings.
C30_ValidatorsAgree ==
  probe.op = "agree" =>
     /\ probe.collector <=> probe.validator
     /\ probe.validator <=> probe.processor

\* The QUALITY_LOW alerts of an alert list that concern item n.
QualityLow(alerts, n) ==
  { k \in DOMAIN alerts : alerts[k].type = "QUALITY_LOW" /\ alerts[k].seq = n }

\* C12: checkForAlerts puts exactly one QUALITY_LOW alert of severity medium
\* for an item whose quality score is below 70 and none for any other item.
C12_QualityLowBelow70 ==
  probe.op = "checkForAlerts" =>
     \A i \in DOMAIN probe.data :
        /\ Cardinality(QualityLow(probe.result, i))
             = (IF probe.data[i].qualityScore < QualityFloor THEN 1 ELSE 0)
        /\ \A k \in QualityLow(probe.result, i) :
              probe.result[k].severity = "medium"

\* C12 witness: a batch with a score at the floor and a score one below it
\* produced one alert, for the lower score.
C12_Witness ==
  /\ probe.op = "checkForAlerts"
  /\ Len(probe.data) = 2
  /\ probe.data[1].qualityScore = QualityFloor
  /\ probe.data[2].qualityScore = QualityFloor - 1
  /\ Len(probe.result) = 1
  /\ probe.result[1].seq = 2

====
